---- MODULE Spec2Model ----
(***************************************************************************)
(* NaviPlanner (modules/planning/planner/navi/navi_planner.cc): one        *)
(* planning cycle over the reference lines of a frame, the speed seeding   *)
(* (warm start / hot start), the task pipeline, the path and speed         *)
(* fallbacks, trajectory assembly and validation, and the cost kept on     *)
(* each ReferenceLineInfo.                                                 *)
(*                                                                         *)
(* Numbers.  The code computes in doubles; the model computes in integers  *)
(* of fixed units so that every value the code produces from integer       *)
(* inputs (m, m/s, m/s^2) is exact:                                        *)
(*   costs        1       (10.0 is 10, 2e4 is 20000, 1e3 is 1000)          *)
(*   path x, y, s 1 m                                                      *)
(*   speed t      1/50 s  (the 0.02 s step of the stop profiles)           *)
(*   speed s      1/750000 m,  v 1/5000 m/s,  a 1/50 m/s^2                 *)
(***************************************************************************)
EXTENDS Integers, Sequences, FiniteSets, TLC

VARIABLES
  pc,                  \* position of the cycle in Plan / PlanOnReferenceLine
  frame,               \* frame->reference_line_info(): sequence of ReferenceLineInfo
  planning_init_point, \* the planning start point of the cycle
  history,             \* FrameHistory::instance()->Latest()
  flags,               \* FLAGS_enable_trajectory_check, FLAGS_enable_record_debug
  index,               \* Plan: index
  success_line_count,  \* Plan: success_line_count
  ret,                 \* PlanOnReferenceLine: ret
  task_i,              \* PlanOnReferenceLine: position in tasks_
  trajectory,          \* PlanOnReferenceLine: the local DiscretizedTrajectory
  plan_status,         \* what Plan returned ("none" while it runs)
  line_status,         \* what PlanOnReferenceLine returned for each line so far
  trace,               \* observation: calls made on the current line, in order
  config,              \* config.navi_planner_config().task()
  tasks_,              \* NaviPlanner::tasks_
  init_status          \* what Init returned ("none" while it runs)

vars == <<pc, frame, planning_init_point, history, flags, index,
          success_line_count, ret, task_i, trajectory, plan_status,
          line_status, trace, config, tasks_, init_status>>

\* what Init builds and Plan only reads
planner_vars == <<config, tasks_, init_status>>

-----------------------------------------------------------------------------
(* Bounds of the model *)

MaxLines == 2        \* reference lines in a frame
NumTasks == 2        \* tasks configured in navi_planner_config
MaxProfileLen == 3   \* samples of the previous cycle's speed vector
MaxConfigTasks == 3  \* tasks in a configuration handed to Init
MaxInitSpeed == 10   \* initial speeds -1..MaxInitSpeed (m/s)
MaxInitDecel == 3    \* initial accelerations -MaxInitDecel..1 (m/s^2)

-----------------------------------------------------------------------------
(* Program constants *)

kPathOptimizationFallbackClost == 20000
kSpeedOptimizationFallbackClost == 20000
kStraightForwardLineCost == 10
kRefrenceLineStaticObsCost == 1000
FLAGS_cost_non_priority_reference_line == 5

StatusOK == [code |-> "OK", msg |-> ""]
PlanningError(msg) == [code |-> "PLANNING_ERROR", msg |-> msg]

Min(a, b) == IF a < b THEN a ELSE b
Max(a, b) == IF a > b THEN a ELSE b

-----------------------------------------------------------------------------
(* Units of the speed samples, per second / metre *)

TicksPerSecond == 50       \* 1 / unit_t, unit_t = 0.02 s
VUnit == 5000              \* v samples are in 1/5000 m/s
SUnit == 750000            \* s samples are in 1/750000 m
AUnit == 50                \* a samples are in 1/50 m/s^2

SpeedPoint(s, t, v, a, da) == [s |-> s, t |-> t, v |-> v, a |-> a, da |-> da]

-----------------------------------------------------------------------------
(* Reference line geometry (an input of the planner).  A reference line is  *)
(* named by a lane number; its point at arc-length s is a fixed, nowhere    *)
(* constant function of s, so that two arc-lengths never share a point.     *)

GetReferencePoint(line, s) ==
  [x |-> 2 * s + line, y |-> line * (s % 3), heading |-> s % 5,
   kappa |-> (s + line) % 2, dkappa |-> s % 3]

\* ReferenceLine::XYToSL: the projection of (x, y); it fails for a point
\* behind the start of the line.  On failure the SLPoint of the caller is
\* left as constructed (s = 0).
XYToSL(line, x, y) ==
  IF x < line THEN [ok |-> FALSE, s |-> 0]
  ELSE [ok |-> TRUE, s |-> (x - line) \div 2]

\* ReferenceLineInfo::IsStartFrom: the line continues the previous one.
IsStartFrom(info, last_info) == info.reference_line = last_info.reference_line

MakePathPoint(x, y, z, theta, kappa, dkappa, ddkappa) ==
  [x |-> x, y |-> y, z |-> z, theta |-> theta, kappa |-> kappa,
   dkappa |-> dkappa, ddkappa |-> ddkappa, s |-> 0]

-----------------------------------------------------------------------------
(* GenerateFallbackPathProfile *)

max_s == 150
unit_s == 1

\* the values the loop variable s takes: adc_s, adc_s + unit_s, ... < max_s
FallbackPathCount(adc_s) ==
  IF adc_s >= max_s THEN 0 ELSE ((max_s - adc_s - 1) \div unit_s) + 1

GenerateFallbackPathProfile(info) ==
  LET adc_point == info.adc_planning_point
      adc_s == info.adc_sl_boundary_end_s
      adc_ref_point == GetReferencePoint(info.reference_line, adc_s)
      dx == adc_point.x - adc_ref_point.x
      dy == adc_point.y - adc_ref_point.y
  IN [k \in 1..FallbackPathCount(adc_s) |->
        LET s == adc_s + (k - 1) * unit_s
            ref_point == GetReferencePoint(info.reference_line, adc_s)
        IN [MakePathPoint(ref_point.x + dx, ref_point.y + dy, 0,
                          ref_point.heading, ref_point.kappa,
                          ref_point.dkappa, 0) EXCEPT !.s = s]]

-----------------------------------------------------------------------------
(* GenerateSpeedHotStart *)

FLAGS_planning_upper_speed_limit == 20     \* m/s
FLAGS_trajectory_time_length == 15         \* ticks (0.3 s)
FLAGS_trajectory_time_min_interval == 5    \* ticks (0.1 s)
kHotStartMinSpeed == 5                     \* m/s

\* common::math::Clamp(value, bound1, bound2)
Clamp(value, bound1, bound2) ==
  LET lo == Min(bound1, bound2)
      hi == Max(bound1, bound2)
  IN IF value < lo THEN lo ELSE IF value > hi THEN hi ELSE value

\* the samples pushed while t < FLAGS_trajectory_time_length
HotStartCount ==
  IF FLAGS_trajectory_time_length <= 0 THEN 0
  ELSE ((FLAGS_trajectory_time_length - 1)
          \div FLAGS_trajectory_time_min_interval) + 1

\* variant: the hot start takes the initial speed as it is
GenerateSpeedHotStart_NoClamp(init_point) ==
  LET v == init_point.v
  IN [k \in 1..HotStartCount |->
        SpeedPoint((k - 1) * v * FLAGS_trajectory_time_min_interval
                     * (SUnit \div TicksPerSecond),
                   (k - 1) * FLAGS_trajectory_time_min_interval,
                   v * VUnit, 0, 0)]

GenerateSpeedHotStart(init_point) ==
  LET v == Clamp(init_point.v, kHotStartMinSpeed,
                 FLAGS_planning_upper_speed_limit)
  IN [k \in 1..HotStartCount |->
        \* s += v * interval: v m/s over interval/50 s, in 1/750000 m
        SpeedPoint((k - 1) * v * FLAGS_trajectory_time_min_interval
                     * (SUnit \div TicksPerSecond),
                   (k - 1) * FLAGS_trajectory_time_min_interval,
                   v * VUnit, 0, 0)]

-----------------------------------------------------------------------------
(* GenerateInitSpeedProfile (warm start) *)

NoFrame == [present |-> FALSE]
NoLine == [present |-> FALSE]

\* lines 308-324: the samples with s >= s_diff, re-based on the first of them
RECURSIVE RefineSpeedVector(_, _, _, _, _)
RefineSpeedVector(last_speed_vector, s_diff, is_updated_start, start_s, start_time) ==
  IF last_speed_vector = <<>> THEN <<>>
  ELSE LET speed_point == Head(last_speed_vector)
           rest == Tail(last_speed_vector)
       IN IF speed_point.s < s_diff
          THEN RefineSpeedVector(rest, s_diff, is_updated_start, start_s,
                                 start_time)
          ELSE LET s0 == IF is_updated_start THEN start_s ELSE speed_point.s
                   t0 == IF is_updated_start THEN start_time
                         ELSE speed_point.t
               IN <<SpeedPoint(speed_point.s - s0, speed_point.t - t0,
                               speed_point.v, speed_point.a, speed_point.da)>>
                  \o RefineSpeedVector(rest, s_diff, TRUE, s0, t0)

\* variant: the offset is measured from the start of the line, not from
\* the previous start point
WarmStartOffset_FromLineStart(init_point, last_frame) ==
  LET last_info == last_frame.drive_reference_line_info
      sl_point == XYToSL(last_info.reference_line, init_point.x, init_point.y)
  IN sl_point.s * SUnit

\* s_diff of line 304, in the unit of the speed samples
WarmStartOffset(init_point, last_frame) ==
  LET last_info == last_frame.drive_reference_line_info
      last_init_point == last_frame.planning_start_point
      last_sl_point == XYToSL(last_info.reference_line, last_init_point.x,
                              last_init_point.y)
      sl_point == XYToSL(last_info.reference_line, init_point.x, init_point.y)
  IN (sl_point.s - last_sl_point.s) * SUnit

\* variant: the warm start does not look at which line was driven
GenerateInitSpeedProfile_AnyLine(init_point, info, last_frame) ==
  IF ~last_frame.present THEN <<>>
  ELSE IF ~last_frame.drive_reference_line_info.present THEN <<>>
  ELSE LET last_speed_vector ==
             last_frame.drive_reference_line_info.speed_vector
       IN IF last_speed_vector # <<>>
          THEN RefineSpeedVector(last_speed_vector,
                                 WarmStartOffset(init_point, last_frame),
                                 FALSE, 0, 0)
          ELSE <<>>

GenerateInitSpeedProfile(init_point, info, last_frame) ==
  IF ~last_frame.present THEN <<>>
  ELSE IF ~last_frame.drive_reference_line_info.present THEN <<>>
  ELSE IF ~IsStartFrom(info, last_frame.drive_reference_line_info) THEN <<>>
  ELSE LET last_speed_vector ==
             last_frame.drive_reference_line_info.speed_vector
       IN IF last_speed_vector # <<>>
          THEN RefineSpeedVector(last_speed_vector,
                                 WarmStartOffset(init_point, last_frame),
                                 FALSE, 0, 0)
          ELSE <<>>

\* lines 137-144: the speed vector PlanOnReferenceLine seeds the line with
SeedSpeedProfile(init_point, info, last_frame) ==
  LET speed_profile == GenerateInitSpeedProfile(init_point, info, last_frame)
  IN IF speed_profile = <<>> THEN GenerateSpeedHotStart(init_point)
     ELSE speed_profile

-----------------------------------------------------------------------------
(* GenerateStopProfile (closed form, fixed jerk) *)

kFixedJerk == -1                            \* m/s^3
max_t == 150                                \* ticks (3.0 s)
unit_t == 1                                 \* ticks (0.02 s)
FLAGS_slowdown_profile_deceleration == -1   \* m/s^2

\* position and velocity of the jerk phase at tick k, in SUnit and VUnit:
\*   s = v0 t + a t^2 / 2 + j t^3 / 6,   v = v0 + a t + j t^2 / 2,  t = k / 50
JerkPhaseS(init_speed, acc, k) ==
  15000 * init_speed * k + 150 * acc * k * k + kFixedJerk * k * k * k
JerkPhaseV(init_speed, acc, k) ==
  5000 * init_speed + 100 * acc * k + kFixedJerk * k * k

StopProfileCount == IF max_t <= 0 THEN 0 ELSE ((max_t - 1) \div unit_t) + 1

\* the sample of loop iteration i (t = i * unit_t) given pre_s
StopProfilePoint(init_speed, first_point_acc, i, pre_s) ==
  LET t == i * unit_t
      decel == FLAGS_slowdown_profile_deceleration
      \* t_mid = (decel - first_point_acc) / kFixedJerk, in ticks
      t_mid == ((first_point_acc - decel) * TicksPerSecond)
                 \div (-kFixedJerk)
      s_mid == JerkPhaseS(init_speed, first_point_acc, t_mid)
      v_mid == JerkPhaseV(init_speed, first_point_acc, t_mid)
  IN IF t <= t_mid
     THEN SpeedPoint(Max(pre_s, JerkPhaseS(init_speed, first_point_acc, t)),
                     t,
                     Max(0, JerkPhaseV(init_speed, first_point_acc, t)),
                     AUnit * first_point_acc + kFixedJerk * t, 0)
     ELSE SpeedPoint(Max(pre_s, s_mid + 3 * v_mid * (t - t_mid)
                                  + 150 * decel * (t - t_mid) * (t - t_mid)),
                     t,
                     Max(0, v_mid + 100 * decel * (t - t_mid)),
                     AUnit * decel, 0)

\* iterations lo..hi of the loop of lines 413-434, entered with pre_s
\* (split in halves: the result is that of running them one after another)
RECURSIVE StopProfileRange(_, _, _, _, _)
StopProfileRange(init_speed, first_point_acc, lo, hi, pre_s) ==
  IF lo > hi THEN <<>>
  ELSE IF lo = hi
       THEN <<StopProfilePoint(init_speed, first_point_acc, lo, pre_s)>>
       ELSE LET mid == (lo + hi) \div 2
                left == StopProfileRange(init_speed, first_point_acc, lo, mid,
                                         pre_s)
            IN left \o StopProfileRange(init_speed, first_point_acc, mid + 1,
                                        hi, left[Len(left)].s)

GenerateStopProfile(init_speed, init_acc) ==
  StopProfileRange(init_speed, Min(0, init_acc), 0, StopProfileCount - 1, 0)

-----------------------------------------------------------------------------
(* QuinticPolynomialCurve1d(0, init_speed, init_acc, s, 0, 0, t) and        *)
(* GenerateStopProfileFromPolynomial.  The duration is m half-seconds       *)
(* (t = m / 2); a curve is the record of 8 times its three upper            *)
(* coefficients scaled to the unit interval, which are integers:            *)
(*   x(tau) = v0 tau + a0 tau^2 / 2 + (e3 r^3 + e4 r^4 + e5 r^5) / 8,       *)
(*   r = tau / t.                                                           *)

kPolyMinHalfSeconds == 4      \* t = 2.0
kPolyMaxHalfSeconds == 8      \* kMaxT = 4.0, in steps of 0.5
kPolyMaxS == 50               \* s < 50.0, in steps of 1.0
kHornerScale == 25            \* fixed-point scale of the sampled values

QuinticPolynomialCurve1d(init_speed, init_acc, s, m) ==
  LET b0 == 8 * s - 4 * init_speed * m - init_acc * m * m
      b1 == - 4 * init_speed * m - 2 * init_acc * m * m
      b2 == - 2 * init_acc * m * m
  IN [v0 |-> init_speed, a0 |-> init_acc, m |-> m,
      e3 |-> 10 * b0 - 4 * b1 + (b2 \div 2),
      e4 |-> - 15 * b0 + 7 * b1 - b2,
      e5 |-> 6 * b0 - 3 * b1 + (b2 \div 2)]

\* v(u / 10) < -kEpsilon (1e-3), exactly; u tenths of a second, r = u / (5 m)
VelocityBelowEpsilon(curve, u) ==
  LET m == curve.m
      d == 5 * m
      g == 3 * curve.e3 * d * d + 4 * curve.e4 * u * d + 5 * curve.e5 * u * u
      q == g \div (d * d)
      rho == g % (d * d)
      big == u * u * q + ((u * u * rho) \div (d * d))
      frac10 == (10 * ((u * u * rho) % (d * d))) \div (d * d)
      w == - (100 * m * m * m * curve.v0 + 10 * m * m * m * curve.a0 * u)
      diff == big - w
  IN IF diff >= 0 THEN FALSE
     ELSE IF diff < -100 THEN TRUE
     ELSE 10 * diff + frac10 < - (m * m * m)

\* a(u / 10) < -5.0, exactly
AccelerationBelowLimit(curve, u) ==
  LET m == curve.m
      d == 5 * m
      h == 6 * curve.e3 * d * d + 12 * curve.e4 * u * d + 20 * curve.e5 * u * u
      big == u * (h \div d) + ((u * (h % d)) \div d)
  IN big < - (50 * m * m * m * m * (curve.a0 + 5))

\* IsValidProfile: evaluate_t = 0.1, 0.3, ... <= curve.ParamLength()
IsValidProfile(curve) ==
  \A j \in 0..((5 * curve.m - 1) \div 2) :
     LET u == 1 + 2 * j
     IN ~(VelocityBelowEpsilon(curve, u) \/ AccelerationBelowLimit(curve, u))

\* Evaluate(order, k / 50): the sample at tick k, in the units of the speed
\* samples (da in 1/1000 m/s^3), each Horner step rounded down at 1/25
Horner(c3, c4, c5, n, d) ==
  (((((c5 * kHornerScale * n) \div d) + c4 * kHornerScale) * n) \div d)
    + c3 * kHornerScale

EvaluateCurve(curve, k) ==
  LET m == curve.m
      d == 25 * m
      r1(x) == (x * k) \div d
      ps == r1(r1(r1(Horner(curve.e3, curve.e4, curve.e5, k, d))))
      pv == r1(r1(Horner(3 * curve.e3, 4 * curve.e4, 5 * curve.e5, k, d)))
      pa == r1(Horner(6 * curve.e3, 12 * curve.e4, 20 * curve.e5, k, d))
      pj == Horner(6 * curve.e3, 24 * curve.e4, 60 * curve.e5, k, d)
  IN SpeedPoint(15000 * curve.v0 * k + 150 * curve.a0 * k * k
                  + ps * (93750 \div kHornerScale),
                k,
                5000 * curve.v0 + 100 * curve.a0 * k
                  + (pv * (1250 \div kHornerScale)) \div m,
                50 * curve.a0 + ((pa * (25 \div kHornerScale)) \div (m * m)),
                (pj * (1000 \div kHornerScale)) \div (m * m * m))

\* the loops of lines 442-459: the first valid (t, s), t outermost
ValidDistances(init_speed, init_acc, m) ==
  {s \in 0..(kPolyMaxS - 1) :
     IsValidProfile(QuinticPolynomialCurve1d(init_speed, init_acc, s, m))}

RECURSIVE FirstValidCurve(_, _, _)
FirstValidCurve(init_speed, init_acc, m) ==
  IF m > kPolyMaxHalfSeconds THEN [found |-> FALSE]
  ELSE LET ok == ValidDistances(init_speed, init_acc, m)
       IN IF ok = {} THEN FirstValidCurve(init_speed, init_acc, m + 1)
          ELSE LET s == CHOOSE x \in ok : \A y \in ok : x <= y
               IN [found |-> TRUE,
                   curve |-> QuinticPolynomialCurve1d(init_speed, init_acc,
                                                      s, m)]

GenerateStopProfileFromPolynomial(init_speed, init_acc) ==
  LET first == FirstValidCurve(init_speed, init_acc, kPolyMinHalfSeconds)
  IN IF ~first.found THEN <<>>
     ELSE [i \in 1..(25 * first.curve.m + 1) |->
             EvaluateCurve(first.curve, i - 1)]

-----------------------------------------------------------------------------
(* GenerateFallbackSpeedProfile *)

\* variant: the speed fallback goes straight to the closed-form profile
GenerateFallbackSpeedProfile_StopOnly(info) ==
  GenerateStopProfile(info.adc_planning_point.v, info.adc_planning_point.a)

GenerateFallbackSpeedProfile(info) ==
  LET speed_data ==
        GenerateStopProfileFromPolynomial(info.adc_planning_point.v,
                                          info.adc_planning_point.a)
  IN IF speed_data = <<>>
     THEN GenerateStopProfile(info.adc_planning_point.v,
                              info.adc_planning_point.a)
     ELSE speed_data

-----------------------------------------------------------------------------
(* ReferenceLineInfo, and the collaborators PlanOnReferenceLine calls *)

NoTrajectory == [present |-> FALSE]

Obstacle(is_virtual, is_static, has_stop) ==
  [is_virtual |-> is_virtual, is_static |-> is_static, has_stop |-> has_stop]

\* a reference line as the frame builder hands it to the planner
ReferenceLineInfo(is_change_lane_path, reference_line, adc_s, init_point, obstacles, is_drivable) ==
  [is_change_lane_path |-> is_change_lane_path,
   reference_line |-> reference_line,
   adc_sl_boundary_end_s |-> adc_s,
   adc_planning_point |-> init_point,
   path_obstacles |-> obstacles,
   cost |-> 0, priority_cost |-> 0,
   path_data |-> <<>>, speed_data |-> <<>>,
   is_drivable |-> is_drivable, trajectory |-> NoTrajectory,
   latency_stats |-> <<>>, debug_obstacles |-> <<>>]

AddCost(info, cost) == [info EXCEPT !.cost = @ + cost]
SetPriorityCost(info, cost) == [info EXCEPT !.priority_cost = cost]
\* the cost a line is ranked by
TotalCost(info) == info.priority_cost + info.cost

\* ReferenceLineInfo::CombinePathAndSpeedProfile, when it succeeds
CombinePathAndSpeedProfile(info, relative_time, start_s) ==
  [present |-> TRUE, relative_time |-> relative_time, start_s |-> start_s,
   path |-> info.path_data, speed |-> info.speed_data]

\* what a task's Execute may leave on the line (the tasks are opaque)
TaskPath == <<[MakePathPoint(1, 0, 0, 0, 0, 0, 0) EXCEPT !.s = 0],
              [MakePathPoint(2, 0, 0, 0, 0, 0, 0) EXCEPT !.s = 1]>>
TaskSpeed == <<SpeedPoint(0, 0, 2 * VUnit, 0, 0),
               SpeedPoint(30000, 1, 2 * VUnit, 0, 0)>>

TaskOutcome(ok, path, speed) == [ok |-> ok, path |-> path, speed |-> speed]

Execute(info, outcome) ==
  [info EXCEPT
     !.path_data = IF outcome.path = "set" THEN TaskPath
                   ELSE IF outcome.path = "clear" THEN <<>> ELSE @,
     !.speed_data = IF outcome.speed = "set" THEN TaskSpeed
                    ELSE IF outcome.speed = "clear" THEN <<>> ELSE @]

TaskName(i) == <<"task", i>>

-----------------------------------------------------------------------------
(* RecordDebugInfo, RecordObstacleDebugInfo *)

\* variant: recording a task's latency also charges it to the line
RecordDebugInfo_Charged(info, name, time_diff_ms) ==
  IF ~flags.enable_record_debug THEN info
  ELSE AddCost([info EXCEPT !.latency_stats =
                  Append(@, [name |-> name, time_ms |-> time_diff_ms])],
               time_diff_ms)

RecordDebugInfo(info, name, time_diff_ms) ==
  IF ~flags.enable_record_debug THEN info
  ELSE [info EXCEPT !.latency_stats =
          Append(@, [name |-> name, time_ms |-> time_diff_ms])]

RecordObstacleDebugInfo(info) ==
  IF ~flags.enable_record_debug THEN info
  ELSE [info EXCEPT !.debug_obstacles =
          @ \o [i \in 1..Len(info.path_obstacles) |->
                  [id |-> i, decision |-> info.path_obstacles[i].has_stop]]]

-----------------------------------------------------------------------------
(* Plan and PlanOnReferenceLine *)

Line == index + 1               \* the line of the frame being planned
Event(name) == <<name>>

\* lines 101-106
PriorityCostOf(i) ==
  IF i # 0 THEN FLAGS_cost_non_priority_reference_line ELSE 0

\* lines 133-135
StraightForwardCost(info) ==
  IF ~info.is_change_lane_path THEN AddCost(info, kStraightForwardLineCost)
  ELSE info

\* lines 100-108 and 130-146: the loop of Plan takes the next line and
\* enters PlanOnReferenceLine, up to the task loop
PlanOnReferenceLineEnter ==
  /\ pc = "Plan"
  /\ UNCHANGED planner_vars
  /\ index < Len(frame)
  /\ LET info1 == SetPriorityCost(frame[Line], PriorityCostOf(index))
         info2 == StraightForwardCost(info1)
         info3 == [info2 EXCEPT !.speed_data =
                     SeedSpeedProfile(planning_init_point, info2, history)]
     IN frame' = [frame EXCEPT ![Line] = info3]
  /\ ret' = StatusOK
  /\ task_i' = 0
  /\ trace' = <<>>
  /\ pc' = IF NumTasks = 0 THEN "Fallback" ELSE "Tasks"
  /\ UNCHANGED <<planning_init_point, history, flags, index,
                 success_line_count, trajectory, plan_status, line_status>>

\* lines 148-164, one iteration: the task at task_i + 1 runs and succeeds
TaskSucceeds(outcomes, times) ==
  /\ pc = "Tasks"
  /\ UNCHANGED planner_vars
  /\ \E outcome \in outcomes, time_diff_ms \in times :
       /\ outcome.ok
       /\ frame' = [frame EXCEPT ![Line] =
            RecordDebugInfo(Execute(@, outcome), TaskName(task_i + 1),
                            time_diff_ms)]
       /\ trace' = Append(trace, <<"Execute", task_i + 1, outcome>>)
  /\ ret' = StatusOK
  /\ task_i' = task_i + 1
  /\ pc' = IF task_i + 1 = NumTasks THEN "Fallback" ELSE "Tasks"
  /\ UNCHANGED <<planning_init_point, history, flags, index,
                 success_line_count, trajectory, plan_status, line_status>>

\* variant: a failed task does not end the task loop
TaskFails_Continue(outcomes) ==
  /\ pc = "Tasks"
  /\ UNCHANGED planner_vars
  /\ \E outcome \in outcomes :
       /\ ~outcome.ok
       /\ frame' = [frame EXCEPT ![Line] = Execute(@, outcome)]
       /\ trace' = Append(trace, <<"Execute", task_i + 1, outcome>>)
  /\ ret' = PlanningError("task failed")
  /\ task_i' = task_i + 1
  /\ pc' = IF task_i + 1 = NumTasks THEN "Fallback" ELSE "Tasks"
  /\ UNCHANGED <<planning_init_point, history, flags, index,
                 success_line_count, trajectory, plan_status, line_status>>

\* lines 150-155: the task at task_i + 1 runs and fails: break
TaskFails(outcomes) ==
  /\ pc = "Tasks"
  /\ UNCHANGED planner_vars
  /\ \E outcome \in outcomes :
       /\ ~outcome.ok
       /\ frame' = [frame EXCEPT ![Line] = Execute(@, outcome)]
       /\ trace' = Append(trace, <<"Execute", task_i + 1, outcome>>)
  /\ ret' = PlanningError("task failed")
  /\ task_i' = task_i + 1
  /\ pc' = "Fallback"
  /\ UNCHANGED <<planning_init_point, history, flags, index,
                 success_line_count, trajectory, plan_status, line_status>>

\* variant: a failed pipeline triggers the path fallback too
PathFallback_OnFailure(info) ==
  IF info.path_data = <<>> \/ ret # StatusOK
  THEN AddCost([info EXCEPT !.path_data = GenerateFallbackPathProfile(info)],
               kPathOptimizationFallbackClost)
  ELSE info

\* lines 168-173
PathFallback(info) ==
  IF info.path_data = <<>>
  THEN AddCost([info EXCEPT !.path_data = GenerateFallbackPathProfile(info)],
               kPathOptimizationFallbackClost)
  ELSE info

\* variant: the speed fallback looks at the speed data only
NeedSpeedFallback_EmptyOnly(status, info) == info.speed_data = <<>>

\* lines 175-180
NeedSpeedFallback(status, info) ==
  status.code # "OK" \/ info.speed_data = <<>>

\* variant: the speed fallback keeps a speed profile the tasks left
SpeedFallback_KeepNonEmpty(status, info) ==
  IF NeedSpeedFallback(status, info)
  THEN AddCost([info EXCEPT !.speed_data =
                  IF @ = <<>> THEN GenerateFallbackSpeedProfile(info) ELSE @],
               kSpeedOptimizationFallbackClost)
  ELSE info

SpeedFallback(status, info) ==
  IF NeedSpeedFallback(status, info)
  THEN AddCost([info EXCEPT !.speed_data = GenerateFallbackSpeedProfile(info)],
               kSpeedOptimizationFallbackClost)
  ELSE info

\* lines 166-180
Fallbacks ==
  /\ pc = "Fallback"
  /\ UNCHANGED planner_vars
  /\ LET info1 == RecordObstacleDebugInfo(frame[Line])
         info2 == PathFallback(info1)
         info3 == SpeedFallback(ret, info2)
     IN /\ frame' = [frame EXCEPT ![Line] = info3]
        /\ trace' = trace
             \o (IF info1.path_data = <<>>
                 THEN <<Event("GenerateFallbackPathProfile")>> ELSE <<>>)
             \o (IF NeedSpeedFallback(ret, info2)
                 THEN <<Event("GenerateFallbackSpeedProfile")>> ELSE <<>>)
  /\ pc' = "Combine"
  /\ UNCHANGED <<planning_init_point, history, flags, index,
                 success_line_count, ret, task_i, trajectory, plan_status,
                 line_status>>

\* variant: Plan leaves its loop at the first line that fails
ReturnToPlan_Break(status) ==
  /\ success_line_count' =
       IF status # StatusOK THEN success_line_count
       ELSE success_line_count + 1
  /\ line_status' = Append(line_status, [index |-> index, status |-> status])
  /\ index' = IF status # StatusOK THEN Len(frame) ELSE index + 1
  /\ pc' = "Plan"

\* lines 110-120: Plan takes the status of the line and moves on
ReturnToPlan(status) ==
  /\ success_line_count' =
       IF status # StatusOK THEN success_line_count
       ELSE success_line_count + 1
  /\ line_status' = Append(line_status, [index |-> index, status |-> status])
  /\ index' = index + 1
  /\ pc' = "Plan"

\* lines 183-189: assembly fails, PlanOnReferenceLine returns
CombineFails ==
  /\ pc = "Combine"
  /\ UNCHANGED planner_vars
  /\ trace' = Append(trace, <<"CombinePathAndSpeedProfile", FALSE>>)
  /\ ReturnToPlan(PlanningError("Fail to aggregate planning trajectory."))
  /\ UNCHANGED <<frame, planning_init_point, history, flags, ret, task_i,
                 trajectory, plan_status>>

\* lines 191-203
RECURSIVE StaticObstacleCost(_, _)
StaticObstacleCost(info, obstacles) ==
  IF obstacles = <<>> THEN info
  ELSE LET path_obstacle == Head(obstacles)
       IN IF path_obstacle.is_virtual
          THEN StaticObstacleCost(info, Tail(obstacles))
          ELSE IF ~path_obstacle.is_static
          THEN StaticObstacleCost(info, Tail(obstacles))
          ELSE IF path_obstacle.has_stop
          THEN StaticObstacleCost(AddCost(info, kRefrenceLineStaticObsCost),
                                  Tail(obstacles))
          ELSE StaticObstacleCost(info, Tail(obstacles))

\* lines 182-203: assembly succeeds, the obstacle costs are added
CombineSucceeds ==
  /\ pc = "Combine"
  /\ UNCHANGED planner_vars
  /\ trajectory' = CombinePathAndSpeedProfile(frame[Line],
                                              planning_init_point.relative_time,
                                              planning_init_point.s)
  /\ frame' = [frame EXCEPT ![Line] =
                 StaticObstacleCost(@, @.path_obstacles)]
  /\ trace' = Append(trace, <<"CombinePathAndSpeedProfile", TRUE>>)
  /\ pc' = "Validate"
  /\ UNCHANGED <<planning_init_point, history, flags, index,
                 success_line_count, ret, task_i, plan_status, line_status>>

\* variant: the trajectory check ignores its flag
Rejected_AlwaysChecked(valid) == ~valid

\* lines 205-211: whether the trajectory is rejected, given what the
\* feasibility oracle says of it
Rejected(valid) == flags.enable_trajectory_check /\ ~valid

\* lines 205-215
Validate ==
  /\ pc = "Validate"
  /\ UNCHANGED planner_vars
  /\ \E valid \in BOOLEAN :
       /\ trace' = Append(trace, <<"Feasible", valid>>)
       /\ IF Rejected(valid)
          THEN /\ ReturnToPlan(PlanningError(
                     "Failed to validate current planning trajectory."))
               /\ UNCHANGED frame
          ELSE /\ frame' = [frame EXCEPT ![Line] =
                              [@ EXCEPT !.trajectory = trajectory,
                                        !.is_drivable = TRUE]]
               /\ ReturnToPlan(StatusOK)
  /\ UNCHANGED <<planning_init_point, history, flags, ret, task_i,
                 trajectory, plan_status>>

\* variant: Plan asks for two successful lines
PlanResult_TwoLines(count) ==
  IF count > 1 THEN StatusOK
  ELSE PlanningError("Failed to plan on any reference line.")

\* lines 123-127
PlanResult(count) ==
  IF count > 0 THEN StatusOK
  ELSE PlanningError("Failed to plan on any reference line.")

PlanReturn ==
  /\ pc = "Plan"
  /\ UNCHANGED planner_vars
  /\ index >= Len(frame)
  /\ plan_status' = PlanResult(success_line_count)
  /\ pc' = "Done"
  /\ UNCHANGED <<frame, planning_init_point, history, flags, index,
                 success_line_count, ret, task_i, trajectory, line_status,
                 trace>>

-----------------------------------------------------------------------------
(* RegisterTasks and Init *)

\* lines 68-75: the task types task_factory_ can create, with the tasks' names
RegisterTasks ==
  [NAVI_PATH_DECIDER |-> "NaviPathDecider",
   NAVI_SPEED_DECIDER |-> "NaviSpeedDecider",
   NAVI_OBSTACLE_DECIDER |-> "NaviObstacleDecider"]

TaskTypes == DOMAIN RegisterTasks

\* line 82: task_factory_.CreateObject for a registered type
CreateObject(task) == RegisterTasks[task]

InitUnchanged ==
  UNCHANGED <<frame, planning_init_point, history, flags, index,
              success_line_count, ret, trajectory, plan_status, line_status>>

\* lines 80-84, one iteration: the next configured task is created
InitCreateTask ==
  /\ pc = "Init.Create"
  /\ Len(tasks_) < Len(config)
  /\ LET task == config[Len(tasks_) + 1]
     IN /\ tasks_' = Append(tasks_, CreateObject(task))
        /\ trace' = Append(trace, <<"CreateObject", task>>)
  /\ pc' = IF Len(tasks_) + 1 = Len(config) THEN "Init.Tasks"
           ELSE "Init.Create"
  /\ UNCHANGED <<config, init_status, task_i>>
  /\ InitUnchanged

\* lines 85-86, one iteration: task->Init(config) returns true
InitTaskSucceeds ==
  /\ pc = "Init.Tasks"
  /\ task_i < Len(tasks_)
  /\ trace' = Append(trace, <<"Init", task_i + 1, tasks_[task_i + 1], TRUE>>)
  /\ task_i' = task_i + 1
  /\ UNCHANGED <<pc, config, tasks_, init_status>>
  /\ InitUnchanged

InitTaskError(name) == PlanningError(<<"Init task[", name, "] failed.">>)

\* variant: a task that fails to initialise is skipped
InitTaskFails_Skip ==
  /\ pc = "Init.Tasks"
  /\ task_i < Len(tasks_)
  /\ trace' = Append(trace, <<"Init", task_i + 1, tasks_[task_i + 1], FALSE>>)
  /\ task_i' = task_i + 1
  /\ UNCHANGED <<pc, config, tasks_, init_status>>
  /\ InitUnchanged

\* lines 86-91: task->Init(config) returns false, Init returns the error
InitTaskFails ==
  /\ pc = "Init.Tasks"
  /\ task_i < Len(tasks_)
  /\ trace' = Append(trace, <<"Init", task_i + 1, tasks_[task_i + 1], FALSE>>)
  /\ init_status' = InitTaskError(tasks_[task_i + 1])
  /\ pc' = "Init.Done"
  /\ UNCHANGED <<config, tasks_, task_i>>
  /\ InitUnchanged

\* line 93
InitReturn ==
  /\ pc = "Init.Tasks"
  /\ task_i >= Len(tasks_)
  /\ init_status' = StatusOK
  /\ pc' = "Init.Done"
  /\ UNCHANGED <<config, tasks_, task_i, trace>>
  /\ InitUnchanged

\* a planner whose Init returned OK with NumTasks tasks configured
Initialized ==
  /\ config \in [1..NumTasks -> TaskTypes]
  /\ \A i \in 1..NumTasks :
       config[i] = IF i % 3 = 1 THEN "NAVI_PATH_DECIDER"
                   ELSE IF i % 3 = 2 THEN "NAVI_SPEED_DECIDER"
                   ELSE "NAVI_OBSTACLE_DECIDER"
  /\ tasks_ = [i \in 1..NumTasks |-> CreateObject(config[i])]
  /\ init_status = StatusOK

-----------------------------------------------------------------------------
(* The cycles explored *)

InitPoint(x, v, a) ==
  [x |-> x, y |-> 1, s |-> 0, v |-> v, a |-> a, relative_time |-> 0]

\* sequences over S of length at most n
RECURSIVE SeqsUpTo(_, _)
SeqsUpTo(S, n) ==
  IF n = 0 THEN {<<>>}
  ELSE LET shorter == SeqsUpTo(S, n - 1)
       IN shorter \cup {Append(q, x) : q \in {r \in shorter : Len(r) = n - 1},
                                       x \in S}

LastFrame(line, x, speed_vector) ==
  [present |-> TRUE,
   planning_start_point |-> InitPoint(x, 2, 0),
   drive_reference_line_info |->
     [present |-> TRUE, reference_line |-> line,
      speed_vector |-> speed_vector]]

Flags == [enable_trajectory_check : BOOLEAN, enable_record_debug : BOOLEAN]

TaskOutcomes ==
  {TaskOutcome(TRUE, "set", "set"), TaskOutcome(TRUE, "keep", "keep"),
   TaskOutcome(TRUE, "keep", "clear"), TaskOutcome(FALSE, "keep", "keep"),
   TaskOutcome(FALSE, "set", "set")}
TimeDiffs == {1}

\* a previous speed vector: sample i is at the i-th arc-length of s_list (m)
SpeedVector(s_list) ==
  [i \in 1..Len(s_list) |->
     SpeedPoint(s_list[i] * SUnit, 10 * i, (4 - i) * VUnit, - i, i)]

\* the cycles of Spec: one or more lines of two kinds, the first on the
\* reference line the previous cycle drove (warm start), the second on
\* another one (hot start) and handed over with its drivable flag already
\* set; trajectory check on or off
StartPoint == InitPoint(10, 2, 0)
CycleLine(kind) ==
  IF kind = 1
  THEN ReferenceLineInfo(FALSE, 1, 148, StartPoint,
                         <<Obstacle(FALSE, TRUE, TRUE)>>, FALSE)
  ELSE ReferenceLineInfo(TRUE, 2, 150, StartPoint,
                         <<Obstacle(TRUE, TRUE, TRUE),
                           Obstacle(FALSE, FALSE, TRUE)>>, TRUE)
\* frames of 1..MaxLines lines alternating between the kinds
CycleFrames ==
  {[k \in 1..n |-> CycleLine(1 + ((k + first) % 2))] :
     n \in 1..MaxLines, first \in 0..1}
CycleHistories == {LastFrame(1, 4, SpeedVector(<<0, 4, 8>>))}

Init ==
  /\ pc = "Plan"
  /\ planning_init_point = StartPoint
  /\ history \in CycleHistories
  /\ flags \in {f \in Flags : ~f.enable_record_debug}
  /\ frame \in CycleFrames
  /\ index = 0
  /\ success_line_count = 0
  /\ ret = StatusOK
  /\ task_i = 0
  /\ trajectory = NoTrajectory
  /\ plan_status = "none"
  /\ line_status = <<>>
  /\ trace = <<>>
  /\ Initialized

Next ==
  \/ PlanOnReferenceLineEnter
  \/ TaskSucceeds(TaskOutcomes, TimeDiffs)
  \/ TaskFails(TaskOutcomes)
  \/ Fallbacks
  \/ CombineFails
  \/ CombineSucceeds
  \/ Validate
  \/ PlanReturn

Spec == Init /\ [][Next]_vars

-----------------------------------------------------------------------------
(* The speed seeding on its own: one line, every kind of previous cycle *)

\* the non-decreasing lists over 0..hi of length at most n
SortedLists(hi, n) ==
  {q \in SeqsUpTo(0..hi, n) : \A i \in 1..(Len(q) - 1) : q[i] <= q[i + 1]}

WarmHistories ==
  {NoFrame, [present |-> TRUE, planning_start_point |-> InitPoint(3, 2, 0),
             drive_reference_line_info |-> NoLine]}
  \cup {LastFrame(line, x, SpeedVector(q)) :
          line \in {1, 2}, x \in {0, 1, 3}, q \in SortedLists(3, MaxProfileLen)}

InitWarm ==
  /\ pc = "Plan"
  /\ planning_init_point \in {InitPoint(x, v, 0) : x \in {0, 3, 5, 9},
                                                    v \in {2, 30}}
  /\ history \in WarmHistories
  /\ flags = [enable_trajectory_check |-> TRUE, enable_record_debug |-> FALSE]
  /\ \E line \in {1, 2} :
       frame = <<ReferenceLineInfo(FALSE, line, 148, planning_init_point,
                                   <<>>, FALSE)>>
  /\ index = 0
  /\ success_line_count = 0
  /\ ret = StatusOK
  /\ task_i = 0
  /\ trajectory = NoTrajectory
  /\ plan_status = "none"
  /\ line_status = <<>>
  /\ trace = <<>>
  /\ Initialized

NextWarm == PlanOnReferenceLineEnter

SpecWarm == InitWarm /\ [][NextWarm]_vars

-----------------------------------------------------------------------------
(* Init on its own: every configuration of up to MaxConfigTasks tasks *)

InitPlanner ==
  /\ config \in SeqsUpTo(TaskTypes, MaxConfigTasks)
  /\ pc = IF config = <<>> THEN "Init.Tasks" ELSE "Init.Create"
  /\ tasks_ = <<>>
  /\ init_status = "none"
  /\ planning_init_point = StartPoint
  /\ history = NoFrame
  /\ flags = [enable_trajectory_check |-> TRUE, enable_record_debug |-> FALSE]
  /\ frame = <<>>
  /\ index = 0
  /\ success_line_count = 0
  /\ ret = StatusOK
  /\ task_i = 0
  /\ trajectory = NoTrajectory
  /\ plan_status = "none"
  /\ line_status = <<>>
  /\ trace = <<>>

NextInit ==
  \/ InitCreateTask
  \/ InitTaskSucceeds
  \/ InitTaskFails
  \/ InitReturn

SpecInit == InitPlanner /\ [][NextInit]_vars

-----------------------------------------------------------------------------
(* The speed profile generators on their own: every initial speed and     *)
(* acceleration of a grid, one generator called on a fresh line           *)

kFastSpeed == 30   \* m/s, above FLAGS_planning_upper_speed_limit

InitSpeed ==
  /\ pc = "Speed"
  /\ planning_init_point \in
       {InitPoint(0, v, a) : v \in ((-1)..MaxInitSpeed) \cup {kFastSpeed},
                             a \in (-MaxInitDecel)..1}
  /\ frame = <<ReferenceLineInfo(FALSE, 1, 0, planning_init_point, <<>>,
                                 FALSE)>>
  /\ history = NoFrame
  /\ flags = [enable_trajectory_check |-> TRUE, enable_record_debug |-> FALSE]
  /\ index = 0
  /\ success_line_count = 0
  /\ ret = StatusOK
  /\ task_i = 0
  /\ trajectory = NoTrajectory
  /\ plan_status = "none"
  /\ line_status = <<>>
  /\ trace = <<>>
  /\ Initialized

\* the result of the generator called is put on the line
Returns(name, speed_data) ==
  /\ frame' = [frame EXCEPT ![1].speed_data = speed_data]
  /\ trace' = <<Event(name)>>
  /\ pc' = "Speed.Done"
  /\ UNCHANGED <<planning_init_point, history, flags, index,
                 success_line_count, ret, task_i, trajectory, plan_status,
                 line_status>>
  /\ UNCHANGED planner_vars

CallGenerateStopProfile ==
  /\ pc = "Speed"
  /\ Returns("GenerateStopProfile",
             GenerateStopProfile(planning_init_point.v,
                                 planning_init_point.a))

CallGenerateStopProfileFromPolynomial ==
  /\ pc = "Speed"
  /\ Returns("GenerateStopProfileFromPolynomial",
             GenerateStopProfileFromPolynomial(planning_init_point.v,
                                               planning_init_point.a))

CallGenerateFallbackSpeedProfile ==
  /\ pc = "Speed"
  /\ Returns("GenerateFallbackSpeedProfile",
             GenerateFallbackSpeedProfile(frame[1]))

CallGenerateSpeedHotStart ==
  /\ pc = "Speed"
  /\ Returns("GenerateSpeedHotStart",
             GenerateSpeedHotStart(planning_init_point))

NextSpeed ==
  \/ CallGenerateStopProfile
  \/ CallGenerateStopProfileFromPolynomial
  \/ CallGenerateFallbackSpeedProfile
  \/ CallGenerateSpeedHotStart

SpecSpeed == InitSpeed /\ [][NextSpeed]_vars

-----------------------------------------------------------------------------
(* The cycles of Spec of at most two lines, with debug recording on or off *)

InitDebug ==
  /\ pc = "Plan"
  /\ planning_init_point = StartPoint
  /\ history \in CycleHistories
  /\ flags \in Flags
  /\ frame \in {f \in CycleFrames : Len(f) <= 2}
  /\ index = 0
  /\ success_line_count = 0
  /\ ret = StatusOK
  /\ task_i = 0
  /\ trajectory = NoTrajectory
  /\ plan_status = "none"
  /\ line_status = <<>>
  /\ trace = <<>>
  /\ Initialized

SpecDebug == InitDebug /\ [][Next]_vars

-----------------------------------------------------------------------------
(* Properties of Plan and PlanOnReferenceLine, checked on Spec *)

Range(q) == {q[i] : i \in 1..Len(q)}

\* PlanOnReferenceLine has just returned for the line at index
Returned == pc \in {"Plan", "Done"} /\ index >= 1
LastLine == frame[index]
\* the same line as the frame handed it to Plan
EntryLine == CycleLine(IF LastLine.is_change_lane_path THEN 2 ELSE 1)
LastStatus == line_status[index].status
Assembled == <<"CombinePathAndSpeedProfile", TRUE>> \in Range(trace)
Feasible == <<"Feasible", TRUE>> \in Range(trace)
PathFallbackRan == Event("GenerateFallbackPathProfile") \in Range(trace)
SpeedFallbackRan == Event("GenerateFallbackSpeedProfile") \in Range(trace)
Accepted == Assembled /\ (~flags.enable_trajectory_check \/ Feasible)
OkLines == {k \in 1..Len(line_status) : line_status[k].status = StatusOK}

\* C1: Plan returns OK exactly when PlanOnReferenceLine returned OK for at
\* least one line of the frame; otherwise it returns a planning error with
\* a non-empty message.
C1_PlanOkIffSomeLineOk ==
  pc = "Done" =>
    /\ plan_status = StatusOK <=> OkLines # {}
    /\ OkLines = {} =>
         plan_status.code = "PLANNING_ERROR" /\ plan_status.msg # ""

\* a cycle of two lines where only the second succeeds
C1_Witness ==
  /\ pc = "Done"
  /\ Len(frame) = 2
  /\ OkLines = {2}
  /\ plan_status = StatusOK

\* C2 as written: a failing task makes PlanOnReferenceLine fail for the
\* line, which is then neither counted as successful nor marked drivable.
C2_TaskFailureFailsLine ==
  (Returned /\ ret # StatusOK) =>
    /\ LastStatus # StatusOK
    /\ LastLine.is_drivable = EntryLine.is_drivable
    /\ LastLine.trajectory = NoTrajectory
    /\ success_line_count = Cardinality(OkLines \ {index})

\* C2 amended: a failing task makes the speed fallback run; the line is
\* returned OK, counted, given its trajectory and marked drivable exactly
\* when the trajectory is assembled and the trajectory check is off or
\* accepts it; otherwise its drivable flag stays as it was.
C2_TaskFailureFallsBack ==
  (Returned /\ ret # StatusOK) =>
    /\ SpeedFallbackRan
    /\ LastStatus = StatusOK <=> Accepted
    /\ LastLine.trajectory.present <=> Accepted
    /\ LastLine.is_drivable <=> (Accepted \/ EntryLine.is_drivable)
    /\ success_line_count = Cardinality(OkLines)

\* a line whose task failed and that is returned OK and marked drivable
C2_Witness ==
  /\ Returned
  /\ ret # StatusOK
  /\ LastStatus = StatusOK
  /\ ~EntryLine.is_drivable
  /\ LastLine.is_drivable
  /\ LastLine.trajectory.present
  /\ success_line_count = Cardinality(OkLines)

\* C3: the lines are processed once each, in frame order, and a line that
\* fails does not keep the later lines from being processed.
C3_EveryLineInOrder ==
  /\ Len(line_status) = index
  /\ \A k \in 1..Len(line_status) : line_status[k].index = k - 1
  /\ pc \notin {"Plan", "Done"} => Line \in 1..Len(frame)
  /\ pc = "Done" => Len(line_status) = Len(frame)

\* a cycle that ends with the first line failed and the second processed
C3_Witness ==
  /\ pc = "Done"
  /\ Len(frame) = 2
  /\ line_status[1].status # StatusOK
  /\ line_status[2].index = 1

\* C4 as written: after the fallback handling both the path data and the
\* speed data of the line are non-empty.
C4_NonEmptyAfterFallback ==
  pc = "Combine" =>
    frame[Line].path_data # <<>> /\ frame[Line].speed_data # <<>>

\* C5: PlanOnReferenceLine returns OK, and marks the line drivable with the
\* assembled trajectory, exactly when the assembly succeeds and the
\* trajectory check is off or the oracle accepts; otherwise it returns a
\* planning error, leaves drivability and trajectory as they were and runs
\* no fallback after the assembly.
C5_OkIffAssembledAndAccepted ==
  Returned =>
    /\ LastStatus = StatusOK <=> Accepted
    /\ LastStatus = StatusOK =>
         /\ LastLine.is_drivable
         /\ LastLine.trajectory = trajectory
         /\ trajectory =
              CombinePathAndSpeedProfile(LastLine,
                                         planning_init_point.relative_time,
                                         planning_init_point.s)
    /\ LastStatus # StatusOK =>
         /\ LastStatus.code = "PLANNING_ERROR"
         /\ LastLine.is_drivable = EntryLine.is_drivable
         /\ LastLine.trajectory = EntryLine.trajectory
    /\ \A i, j \in 1..Len(trace) :
         (trace[i][1] = "CombinePathAndSpeedProfile" /\ j > i)
           => trace[j][1] = "Feasible"

\* the check is off, the oracle would have refused, the line is returned OK
C5_Witness ==
  /\ Returned
  /\ ~flags.enable_trajectory_check
  /\ <<"Feasible", FALSE>> \in Range(trace)
  /\ LastStatus = StatusOK
  /\ ~EntryLine.is_drivable
  /\ LastLine.is_drivable
  /\ LastLine.trajectory.present

StopObstacles(info) ==
  {i \in 1..Len(info.path_obstacles) :
     /\ ~info.path_obstacles[i].is_virtual
     /\ info.path_obstacles[i].is_static
     /\ info.path_obstacles[i].has_stop}

\* C6 as written: when PlanOnReferenceLine returns, the cost of the line is
\* the priority cost, plus the straight-line cost unless it changes lane,
\* plus each fallback penalty that was triggered, plus the static-obstacle
\* penalty for every non-virtual static obstacle with a stop decision.
C6_CostIsSumOfPenalties ==
  Returned =>
    TotalCost(LastLine) =
      PriorityCostOf(index - 1)
      + (IF LastLine.is_change_lane_path THEN 0 ELSE kStraightForwardLineCost)
      + (IF PathFallbackRan THEN kPathOptimizationFallbackClost ELSE 0)
      + (IF SpeedFallbackRan THEN kSpeedOptimizationFallbackClost ELSE 0)
      + kRefrenceLineStaticObsCost * Cardinality(StopObstacles(LastLine))

\* what the logged task outcomes leave on a line
RECURSIVE AfterOutcomes(_, _)
AfterOutcomes(info, events) ==
  IF events = <<>> THEN info
  ELSE AfterOutcomes(Execute(info, Head(events)[3]), Tail(events))

\* C7: the tasks run in their configured order; the first failure ends the
\* task loop, and what the tasks did to the line, the failing one included,
\* is still there when the fallback handling starts.
C7_FailFastNoRollback ==
  /\ pc \in {"Tasks", "Fallback"} =>
       /\ Len(trace) = task_i
       /\ \A j \in 1..task_i : trace[j][1] = "Execute" /\ trace[j][2] = j
       /\ \A j \in 1..(task_i - 1) : trace[j][3].ok
  /\ (pc = "Tasks" /\ task_i > 0) => ret = StatusOK /\ trace[task_i][3].ok
  /\ pc = "Fallback" =>
       /\ ret = StatusOK <=> (task_i = NumTasks /\ trace[task_i][3].ok)
       /\ LET seeded == [frame[Line] EXCEPT
                           !.path_data = <<>>,
                           !.speed_data =
                              SeedSpeedProfile(planning_init_point,
                                               frame[Line], history)]
              after == AfterOutcomes(seeded, trace)
          IN /\ frame[Line].path_data = after.path_data
             /\ frame[Line].speed_data = after.speed_data

\* the first task failed after writing the line: the second never ran and
\* what the first wrote is kept
C7_Witness ==
  /\ pc = "Fallback"
  /\ NumTasks > 1
  /\ task_i = 1
  /\ ret # StatusOK
  /\ frame[Line].path_data = TaskPath
  /\ frame[Line].speed_data = TaskSpeed

\* C10 as written: the fallback path has one point per metre of arc length
\* from the vehicle's position up to 150 m, each at the reference line's
\* point for that arc length shifted by the vehicle's offset from the line,
\* with the reference point's heading, curvature and curvature derivative.
C10_FallbackPathFollowsLine ==
  (pc = "Combine" /\ PathFallbackRan) =>
    LET info == frame[Line]
        adc_s == info.adc_sl_boundary_end_s
        adc_ref == GetReferencePoint(info.reference_line, adc_s)
        dx == info.adc_planning_point.x - adc_ref.x
        dy == info.adc_planning_point.y - adc_ref.y
        path == info.path_data
    IN /\ Len(path) = Cardinality({s \in adc_s..(max_s - 1) : TRUE})
       /\ \A k \in 1..Len(path) :
            LET s == adc_s + (k - 1)
                ref == GetReferencePoint(info.reference_line, s)
            IN /\ path[k].s = s
               /\ path[k].x = ref.x + dx
               /\ path[k].y = ref.y + dy
               /\ path[k].theta = ref.heading
               /\ path[k].kappa = ref.kappa
               /\ path[k].dkappa = ref.dkappa

-----------------------------------------------------------------------------
(* Properties of the speed seeding, checked on SpecWarm *)

Seeded == pc # "Plan" /\ index = 0
NoLastFrame ==
  ~history.present \/ ~history.drive_reference_line_info.present
NoLastSpeed ==
  ~NoLastFrame /\ history.drive_reference_line_info.speed_vector = <<>>
OtherLine ==
  ~NoLastFrame
  /\ history.drive_reference_line_info.reference_line
       # frame[1].reference_line

\* C8: the warm start gives nothing when there is no previous frame or no
\* previously driven line, when the previous speed vector is empty, or when
\* the line does not continue the previous one; the line is then seeded
\* with the hot start.
C8_WarmStartEmptyCases ==
  (Seeded /\ (NoLastFrame \/ NoLastSpeed \/ OtherLine)) =>
    /\ GenerateInitSpeedProfile(planning_init_point, frame[1], history) = <<>>
    /\ frame[1].speed_data = GenerateSpeedHotStart(planning_init_point)

\* a previous frame with a usable speed vector on another line: hot start
C8_Witness ==
  /\ Seeded
  /\ OtherLine
  /\ ~NoLastSpeed
  /\ \E p \in Range(history.drive_reference_line_info.speed_vector) :
       p.s >= 0
  /\ frame[1].speed_data = GenerateSpeedHotStart(planning_init_point)

\* the arc length between the two start points on the previous line
StartAdvance ==
  LET line == history.drive_reference_line_info.reference_line
      last_point == history.planning_start_point
  IN (XYToSL(line, planning_init_point.x, planning_init_point.y).s
      - XYToSL(line, last_point.x, last_point.y).s) * SUnit
LastSpeed == history.drive_reference_line_info.speed_vector
KeptFrom == {i \in 1..Len(LastSpeed) : LastSpeed[i].s >= StartAdvance}
WarmStarted ==
  Seeded /\ ~NoLastFrame /\ ~OtherLine /\ KeptFrom # {}

\* C9: a non-empty warm start is the previous speed vector from its first
\* sample at or beyond the advance of the start point, arc length and time
\* re-based on that sample (so it starts at s = 0, t = 0), with speed,
\* acceleration and jerk copied.
C9_WarmStartIsRebasedSuffix ==
  WarmStarted =>
    LET first == CHOOSE i \in KeptFrom : \A j \in KeptFrom : i <= j
        profile == frame[1].speed_data
    IN /\ Len(profile) = Len(LastSpeed) - first + 1
       /\ profile[1].s = 0 /\ profile[1].t = 0
       /\ \A k \in 1..Len(profile) :
            LET old == LastSpeed[first + k - 1]
            IN profile[k] = SpeedPoint(old.s - LastSpeed[first].s,
                                       old.t - LastSpeed[first].t,
                                       old.v, old.a, old.da)

\* a warm start that drops the first sample and keeps two
C9_Witness ==
  /\ WarmStarted
  /\ Len(LastSpeed) = 3
  /\ Len(frame[1].speed_data) = 2
  /\ LastSpeed[2].s > 0
  /\ frame[1].speed_data[2].s > 0

-----------------------------------------------------------------------------
(* Properties of Init, checked on SpecInit *)

InitEvents == SelectSeq(trace, LAMBDA e : e[1] = "Init")
CreateEvents == SelectSeq(trace, LAMBDA e : e[1] = "CreateObject")

\* C14: Init creates one task per configured task type, in configuration
\* order, and initialises the tasks in that order; it returns OK exactly
\* when every task's Init succeeded, and at the first task whose Init fails
\* it returns a planning error naming that task, without initialising the
\* tasks after it.
C14_InitAllOrFirstFailure ==
  /\ Len(tasks_) <= Len(config)
  /\ Len(CreateEvents) = Len(tasks_)
  /\ \A i \in 1..Len(tasks_) :
       /\ tasks_[i] = RegisterTasks[config[i]]
       /\ CreateEvents[i] = <<"CreateObject", config[i]>>
  /\ pc \in {"Init.Tasks", "Init.Done"} => Len(tasks_) = Len(config)
  /\ InitEvents # <<>> => trace = CreateEvents \o InitEvents
  /\ \A j \in 1..Len(InitEvents) :
       /\ InitEvents[j][2] = j
       /\ InitEvents[j][3] = tasks_[j]
       /\ j < Len(InitEvents) => InitEvents[j][4]
  /\ pc = "Init.Done" =>
       /\ init_status = StatusOK <=>
            /\ Len(InitEvents) = Len(config)
            /\ \A j \in 1..Len(InitEvents) : InitEvents[j][4]
       /\ init_status # StatusOK =>
            LET failed == InitEvents[Len(InitEvents)]
            IN /\ ~failed[4]
               /\ init_status.code = "PLANNING_ERROR"
               /\ init_status.msg = <<"Init task[", failed[3], "] failed.">>
  /\ pc # "Init.Done" => init_status = "none"

\* three tasks configured, the second fails: the third is not initialised
C14_Witness ==
  /\ pc = "Init.Done"
  /\ Len(config) = 3
  /\ Len(InitEvents) = 2
  /\ InitEvents[1][4] /\ ~InitEvents[2][4]
  /\ init_status = InitTaskError(tasks_[2])

-----------------------------------------------------------------------------
(* Properties of the speed profile generators, checked on SpecSpeed *)

CalledIs(name) == pc = "Speed.Done" /\ trace = <<Event(name)>>
Result == frame[1].speed_data
PolynomialProfile ==
  GenerateStopProfileFromPolynomial(planning_init_point.v,
                                    planning_init_point.a)

\* C11: GenerateStopProfile never returns an empty profile, whatever the
\* initial speed and acceleration; GenerateFallbackSpeedProfile returns the
\* polynomial profile when that is not empty and the closed-form profile
\* only when it is, so the speed fallback never leaves an empty profile.
C11_SpeedFallbackNeverEmpty ==
  /\ CalledIs("GenerateStopProfile") =>
       Result # <<>> /\ Len(Result) = StopProfileCount
  /\ CalledIs("GenerateFallbackSpeedProfile") =>
       /\ Result # <<>>
       /\ PolynomialProfile # <<>> => Result = PolynomialProfile
       /\ PolynomialProfile = <<>> =>
            Result = GenerateStopProfile(planning_init_point.v,
                                         planning_init_point.a)

\* the polynomial search finds nothing and the closed form is used
C11_Witness ==
  /\ CalledIs("GenerateFallbackSpeedProfile")
  /\ PolynomialProfile = <<>>
  /\ Len(Result) = StopProfileCount
  /\ planning_init_point.v <= 0

\* C12 as written: from 10 m/s with no acceleration, the closed-form stop
\* profile has a sample with v = 0 within its 3.0 s.
C12_StopProfileReachesZero ==
  (/\ CalledIs("GenerateStopProfile")
   /\ planning_init_point.v = 10
   /\ planning_init_point.a = 0) =>
    \E i \in 1..Len(Result) : Result[i].v = 0 /\ Result[i].t <= max_t

\* C13: every hot-start sample has the initial speed clamped to
\* [5.0, FLAGS_planning_upper_speed_limit]; the samples start at s = 0,
\* t = 0, one per FLAGS_trajectory_time_min_interval while
\* t < FLAGS_trajectory_time_length, s advancing by v times the interval.
C13_HotStartIsClampedConstantSpeed ==
  CalledIs("GenerateSpeedHotStart") =>
    LET v0 == planning_init_point.v
        v == IF v0 < kHotStartMinSpeed THEN kHotStartMinSpeed
             ELSE IF v0 > FLAGS_planning_upper_speed_limit
                  THEN FLAGS_planning_upper_speed_limit
             ELSE v0
    IN /\ Result # <<>>
       /\ Result[1].s = 0 /\ Result[1].t = 0
       /\ Result[Len(Result)].t < FLAGS_trajectory_time_length
       /\ Result[Len(Result)].t + FLAGS_trajectory_time_min_interval
            >= FLAGS_trajectory_time_length
       /\ \A k \in 1..Len(Result) : Result[k].v = v * VUnit
       /\ \A k \in 1..(Len(Result) - 1) :
            /\ Result[k + 1].t = Result[k].t
                                   + FLAGS_trajectory_time_min_interval
            \* v m/s over interval/50 s, in 1/750000 m
            /\ TicksPerSecond * (Result[k + 1].s - Result[k].s)
                 = v * FLAGS_trajectory_time_min_interval * SUnit

\* an initial speed of 2.0 is seeded as 5.0
C13_Witness ==
  /\ CalledIs("GenerateSpeedHotStart")
  /\ planning_init_point.v = 2
  /\ Len(Result) > 1
  /\ \A k \in 1..Len(Result) : Result[k].v = 5 * VUnit

-----------------------------------------------------------------------------
(* Properties of the fallbacks and the obstacle cost, checked on Spec *)

ExecuteEvents == SelectSeq(trace, LAMBDA e : e[1] = "Execute")
\* the line as the task pipeline left it
AfterPipeline ==
  AfterOutcomes([frame[Line] EXCEPT
                   !.path_data = <<>>,
                   !.speed_data = SeedSpeedProfile(planning_init_point,
                                                   frame[Line], history)],
                ExecuteEvents)
StraightCost(info) ==
  IF info.is_change_lane_path THEN 0 ELSE kStraightForwardLineCost

\* C15: the path fallback runs, and its 2e4 is added, exactly when the
\* path is empty after the pipeline, whether the pipeline succeeded or not.
C15_PathFallbackIffPathEmpty ==
  pc = "Combine" =>
    LET info == frame[Line]
        empty == AfterPipeline.path_data = <<>>
    IN /\ PathFallbackRan <=> empty
       /\ info.path_data =
            IF empty THEN GenerateFallbackPathProfile(info)
            ELSE AfterPipeline.path_data
       /\ info.cost - StraightCost(info)
            - (IF SpeedFallbackRan THEN kSpeedOptimizationFallbackClost ELSE 0)
          = IF empty THEN kPathOptimizationFallbackClost ELSE 0

\* the pipeline failed and left a path: no path fallback, no path penalty
C15_Witness ==
  /\ pc = "Combine"
  /\ ret # StatusOK
  /\ frame[Line].path_data = TaskPath
  /\ ~PathFallbackRan
  /\ frame[Line].cost
       = StraightCost(frame[Line]) + kSpeedOptimizationFallbackClost

\* C16: the speed fallback runs, and its 2e4 is added, exactly when the
\* pipeline failed or the speed profile is empty after it; it replaces the
\* profile the tasks left, and its penalty does not depend on the path
\* penalty.
C16_SpeedFallbackIffFailedOrEmpty ==
  pc = "Combine" =>
    LET info == frame[Line]
        needed == ret # StatusOK \/ AfterPipeline.speed_data = <<>>
    IN /\ SpeedFallbackRan <=> needed
       /\ info.speed_data =
            IF needed THEN GenerateFallbackSpeedProfile(info)
            ELSE AfterPipeline.speed_data
       /\ info.cost - StraightCost(info)
            - (IF PathFallbackRan THEN kPathOptimizationFallbackClost ELSE 0)
          = IF needed THEN kSpeedOptimizationFallbackClost ELSE 0

\* the pipeline failed after writing a speed profile: it is replaced, and
\* the speed penalty is added without the path penalty
C16_Witness ==
  /\ pc = "Combine"
  /\ ret # StatusOK
  /\ AfterPipeline.speed_data = TaskSpeed
  /\ frame[Line].speed_data # TaskSpeed
  /\ frame[Line].speed_data # <<>>
  /\ SpeedFallbackRan /\ ~PathFallbackRan
  /\ frame[Line].cost
       = StraightCost(frame[Line]) + kSpeedOptimizationFallbackClost

\* C17 as written: every processed line has 1e3 added once per non-virtual
\* static obstacle with a stop decision and nothing for any other obstacle,
\* whether or not the assembly and the validation then succeed.
C17_ObstaclePenaltyWhateverOutcome ==
  Returned =>
    LastLine.cost - StraightCost(LastLine)
      - (IF PathFallbackRan THEN kPathOptimizationFallbackClost ELSE 0)
      - (IF SpeedFallbackRan THEN kSpeedOptimizationFallbackClost ELSE 0)
    = kRefrenceLineStaticObsCost * Cardinality(StopObstacles(LastLine))

-----------------------------------------------------------------------------
(* Properties of the warm start's conversions, checked on SpecWarm *)

ConversionFails ==
  LET line == history.drive_reference_line_info.reference_line
      last_point == history.planning_start_point
  IN \/ ~XYToSL(line, planning_init_point.x, planning_init_point.y).ok
     \/ ~XYToSL(line, last_point.x, last_point.y).ok

\* C18 as written: when either start point cannot be converted to an arc
\* length on the previous line, the warm start gives nothing and the line
\* is seeded with the hot start.
C18_FailedConversionMeansHotStart ==
  (/\ Seeded
   /\ ~NoLastFrame /\ ~OtherLine /\ LastSpeed # <<>>
   /\ ConversionFails) =>
    /\ GenerateInitSpeedProfile(planning_init_point, frame[1], history) = <<>>
    /\ frame[1].speed_data = GenerateSpeedHotStart(planning_init_point)

-----------------------------------------------------------------------------
(* Properties of debug recording, checked on SpecDebug *)

\* a line without its debug records
Observable(info) ==
  [info EXCEPT !.latency_stats = <<>>, !.debug_obstacles = <<>>]

\* what PlanOnReferenceLine has made of the line the frame handed over,
\* from the position reached and the outcomes logged so far; the debug
\* flag occurs nowhere in it
Replay(entry, i, position, events) ==
  LET failed == \E k \in 1..Len(events) :
                  events[k][1] = "Execute" /\ ~events[k][3].ok
      status == IF failed THEN PlanningError("task failed") ELSE StatusOK
      assembled == <<"CombinePathAndSpeedProfile", TRUE>> \in Range(events)
      accepted ==
        /\ assembled
        /\ \/ <<"Feasible", TRUE>> \in Range(events)
           \/ /\ ~flags.enable_trajectory_check
              /\ <<"Feasible", FALSE>> \in Range(events)
      info1 == StraightForwardCost(SetPriorityCost(entry, PriorityCostOf(i)))
      info2 == [info1 EXCEPT !.speed_data =
                  SeedSpeedProfile(planning_init_point, info1, history)]
      info3 == AfterOutcomes(info2,
                             SelectSeq(events, LAMBDA e : e[1] = "Execute"))
      info4 == IF position \in {"Tasks", "Fallback"} THEN info3
               ELSE SpeedFallback(status, PathFallback(info3))
      info5 == IF assembled
               THEN StaticObstacleCost(info4, info4.path_obstacles)
               ELSE info4
  IN IF accepted
     THEN [info5 EXCEPT
             !.trajectory =
                CombinePathAndSpeedProfile(info5,
                                           planning_init_point.relative_time,
                                           planning_init_point.s),
             !.is_drivable = TRUE]
     ELSE info5

EntryOf(info) == CycleLine(IF info.is_change_lane_path THEN 2 ELSE 1)

\* C19: with the same inputs and the same task, assembly and validation
\* outcomes, everything but the debug records of a line (cost, drivable
\* flag, path, speed, trajectory), the tasks executed, the status of the
\* line and the status of Plan are the same whether debug recording is on
\* or off: they are what Replay gives, and lines not yet planned are as
\* the frame handed them over.
C19_DebugRecordingOnlyObserves ==
  /\ pc \in {"Tasks", "Fallback", "Combine", "Validate"} =>
       /\ Observable(frame[Line])
            = Replay(EntryOf(frame[Line]), index, pc, trace)
       /\ Len(SelectSeq(trace, LAMBDA e : e[1] = "Execute")) = task_i
  /\ Returned =>
       /\ Observable(LastLine) = Replay(EntryLine, index - 1, "Plan", trace)
       /\ LastStatus = StatusOK <=> Replay(EntryLine, index - 1, "Plan",
                                           trace).trajectory.present
  /\ \A k \in 1..Len(frame) :
       (k > index /\ (pc = "Plan" \/ k > index + 1)) =>
          frame[k] = EntryOf(frame[k])
  /\ pc = "Done" => plan_status = PlanResult(Cardinality(OkLines))
  /\ ~flags.enable_record_debug =>
       \A k \in 1..Len(frame) : frame[k] = Observable(frame[k])

\* a cycle with debug recording on: a line returned OK after both tasks
\* ran, with its latency and obstacle records
C19_Witness ==
  /\ flags.enable_record_debug
  /\ pc = "Done"
  /\ LastStatus = StatusOK
  /\ Len(LastLine.latency_stats) = NumTasks
  /\ LastLine.debug_obstacles # <<>>
  /\ plan_status = StatusOK

\* C20 as written: with debug recording on, the line holds one latency
\* record, name and milliseconds, per task executed, in execution order,
\* the failing task included, and none for a task that did not run.
C20_OneLatencyRecordPerExecutedTask ==
  (flags.enable_record_debug /\ pc \in {"Tasks", "Fallback"}) =>
    LET stats == frame[Line].latency_stats
    IN /\ Len(stats) = task_i
       /\ \A j \in 1..Len(stats) : stats[j].name = TaskName(j)

====
